---------------------------- MODULE Spec2Model ----------------------------
(***************************************************************************)
(* Model of esp-flasher/i2cscanner.py: a MicroPython script that           *)
(* configures an I2C bus once, prints a banner and then loops forever:     *)
(* print "Scanning...", scan the bus, print one line per device found (or  *)
(* a "no devices" line), print "done" and sleep five seconds.              *)
(*                                                                         *)
(* The program counter pc walks the statements of the script.  The         *)
(* variable log is the history of everything the script does to the        *)
(* outside world, in order: the lines it writes to stdout and the calls    *)
(* it makes to the platform (the I2C constructor, i2c.scan, time.sleep).   *)
(***************************************************************************)
EXTENDS Integers, Sequences, FiniteSets

VARIABLES
    pc,       \* the statement the interpreter executes next
    name,     \* the module's __name__
    i2c,      \* the module-level bus handle: <<>> unbound, <<handle>> bound
    devices,  \* scan_i2c's local: the list the last i2c.scan() returned
    it,       \* position of the for loop's iterator in devices (1-based)
    timer,    \* seconds left of the time.sleep in progress
    bus,      \* environment: the addresses that acknowledge a probe now
    log       \* history of output lines and platform calls

vars == <<pc, name, i2c, devices, it, timer, bus, log>>

(***************************************************************************)
(* Bounds of the model.                                                    *)
(***************************************************************************)
\* Loop iterations explored; the history grows with every iteration.
MaxSweeps == 2

\* The devices that may be wired to the bus in Spec; they come and go.
Wired == {0, 60, 104}

(***************************************************************************)
(* Program constants.                                                      *)
(***************************************************************************)
\* time.sleep(5)
Interval == 5

\* The 7-bit address space a sweep covers.
AddressSpace == 0 .. 127

\* The names the module can run under: as the main program, or imported.
ModuleNames == {"__main__", "i2cscanner"}

\* I2C(0, scl=Pin(22), sda=Pin(21), freq=100000)
I2C(id, scl, sda, freq) == [id |-> id, scl |-> scl, sda |-> sda, freq |-> freq]

BusConfig == I2C(0, 22, 21, 100000)

(***************************************************************************)
(* The history's events, all of one shape.                                 *)
(***************************************************************************)
Event(ev, txt, arg) == [ev |-> ev, txt |-> txt, arg |-> arg]

\* One line written to stdout.
Line(s) == Event("print", s, <<>>)

\* print(text): text split at its newlines, each piece ended by a newline.
print(lines) == [k \in 1 .. Len(lines) |-> Line(lines[k])]

(***************************************************************************)
(* "{:02X}".format(n): the upper-case hexadecimal digits of n, padded on   *)
(* the left with zeros to a width of at least two.                         *)
(***************************************************************************)
UpperDigits ==
    <<"0", "1", "2", "3", "4", "5", "6", "7",
      "8", "9", "A", "B", "C", "D", "E", "F">>

\* The digits of type x, for the lower-case variant below.
LowerDigits ==
    <<"0", "1", "2", "3", "4", "5", "6", "7",
      "8", "9", "a", "b", "c", "d", "e", "f">>

RECURSIVE DigitsOf(_, _)
DigitsOf(n, alphabet) ==
    IF n < 16 THEN <<alphabet[n + 1]>>
    ELSE Append(DigitsOf(n \div 16, alphabet), alphabet[(n % 16) + 1])

RECURSIVE ZeroPad(_, _)
ZeroPad(digits, width) ==
    IF Len(digits) >= width THEN digits ELSE ZeroPad(<<"0">> \o digits, width)

RECURSIVE Join(_)
Join(digits) ==
    IF digits = <<>> THEN "" ELSE Head(digits) \o Join(Tail(digits))

\* Variant: "{:02x}", lower-case digits.
FormatLower02(n) == Join(ZeroPad(DigitsOf(n, LowerDigits), 2))

\* Variant: "{:X}", no padding.
FormatUnpadded(n) == Join(DigitsOf(n, UpperDigits))

Format02X(n) == Join(ZeroPad(DigitsOf(n, UpperDigits), 2))

\* "I2C device found at address 0x{:02X}!".format(device)
DeviceLine(device) == "I2C device found at address 0x" \o Format02X(device) \o "!"

NoDevicesLine == "No I2C devices found"

(***************************************************************************)
(* i2c.scan(): the platform's sweep.  It probes every address in ascending *)
(* order and returns the list of those that acknowledged.                  *)
(***************************************************************************)
RECURSIVE Ascending(_)
Ascending(S) ==
    IF S = {} THEN <<>>
    ELSE LET m == CHOOSE x \in S : \A y \in S : x <= y
         IN  <<m>> \o Ascending(S \ {m})

scan(acking) == Ascending(acking \cap AddressSpace)

\* Variant: a list of one element counts as empty.
TruthyLong(list) == Len(list) > 1

\* `if devices:` -- a list is true iff it is not empty.
Truthy(list) == Len(list) > 0

\* The number of loop iterations begun so far.
Iterations == Cardinality({i \in DOMAIN log : log[i] = Line("Scanning...")})

(***************************************************************************)
(* The initial state: the interpreter is about to execute line 6.          *)
(***************************************************************************)
InitProgram ==
    /\ pc = "init"
    /\ name \in ModuleNames
    /\ i2c = <<>>
    /\ devices = <<>>
    /\ it = 0
    /\ timer = 0
    /\ log = <<>>

Init == InitProgram /\ bus \in SUBSET Wired

(***************************************************************************)
(* Line 6: the I2C constructor configures the peripheral, or raises.       *)
(***************************************************************************)
InitOk ==
    /\ pc = "init"
    /\ i2c' = <<BusConfig>>
    /\ log' = Append(log, Event("I2C", "ok", <<>>))
    /\ pc' = "main"
    /\ UNCHANGED <<name, devices, it, timer, bus>>

\* Variant: the failure is swallowed and the script carries on.
InitFailSwallowed ==
    /\ pc = "init"
    /\ log' = Append(log, Event("I2C", "HardwareInitError", <<>>))
    /\ pc' = "main"
    /\ UNCHANGED <<name, i2c, devices, it, timer, bus>>

InitFail ==
    /\ pc = "init"
    /\ log' = Append(log, Event("I2C", "HardwareInitError", <<>>))
    /\ pc' = "terminated"
    /\ UNCHANGED <<name, i2c, devices, it, timer, bus>>

(***************************************************************************)
(* Lines 21-22: scan_i2c() runs only in the main program.                  *)
(***************************************************************************)
MainGuard ==
    /\ pc = "main"
    /\ pc' = IF name = "__main__" THEN "banner" ELSE "exited"
    /\ UNCHANGED <<name, i2c, devices, it, timer, bus, log>>

(***************************************************************************)
(* Line 9: print("\nSoldered I2C Scanner!")                                *)
(***************************************************************************)
PrintBanner ==
    /\ pc = "banner"
    /\ log' = log \o print(<<"", "Soldered I2C Scanner!">>)
    /\ pc' = "scanning"
    /\ UNCHANGED <<name, i2c, devices, it, timer, bus>>

(***************************************************************************)
(* Lines 10-11: the top of `while True`: print("Scanning...")              *)
(***************************************************************************)
PrintScanning ==
    /\ pc = "scanning"
    /\ Iterations < MaxSweeps
    /\ log' = log \o print(<<"Scanning...">>)
    /\ pc' = "scan"
    /\ UNCHANGED <<name, i2c, devices, it, timer, bus>>

(***************************************************************************)
(* Line 12: devices = i2c.scan().  The sweep returns the acknowledging     *)
(* addresses, or fails on a transport fault; nothing catches the fault.    *)
(***************************************************************************)
\* Variant: the new result is added to the list of the sweep before.
ScanOkMerging ==
    /\ pc = "scan"
    /\ devices' = devices \o scan(bus)
    /\ log' = Append(log, Event("scan", "ok", scan(bus)))
    /\ pc' = "if"
    /\ UNCHANGED <<name, i2c, it, timer, bus>>

ScanOk ==
    /\ pc = "scan"
    /\ devices' = scan(bus)
    /\ log' = Append(log, Event("scan", "ok", scan(bus)))
    /\ pc' = "if"
    /\ UNCHANGED <<name, i2c, it, timer, bus>>

ScanFault ==
    /\ pc = "scan"
    /\ log' = Append(log, Event("scan", "BusError", <<>>))
    /\ pc' = "terminated"
    /\ UNCHANGED <<name, i2c, devices, it, timer, bus>>

(***************************************************************************)
(* Line 13: if devices:                                                    *)
(***************************************************************************)
IfDevices ==
    /\ pc = "if"
    /\ pc' = IF Truthy(devices) THEN "for" ELSE "else"
    /\ it' = IF Truthy(devices) THEN 1 ELSE it
    /\ UNCHANGED <<name, i2c, devices, timer, bus, log>>

(***************************************************************************)
(* Lines 14-15: for device in devices: print(...)                          *)
(***************************************************************************)
\* Variant: the list is walked from its end.
ForBodyReversed ==
    /\ pc = "for"
    /\ it <= Len(devices)
    /\ log' = log \o print(<<DeviceLine(devices[Len(devices) - it + 1])>>)
    /\ it' = it + 1
    /\ UNCHANGED <<pc, name, i2c, devices, timer, bus>>

ForBody ==
    /\ pc = "for"
    /\ it <= Len(devices)
    /\ log' = log \o print(<<DeviceLine(devices[it])>>)
    /\ it' = it + 1
    /\ UNCHANGED <<pc, name, i2c, devices, timer, bus>>

ForEnd ==
    /\ pc = "for"
    /\ it > Len(devices)
    /\ pc' = "done"
    /\ UNCHANGED <<name, i2c, devices, it, timer, bus, log>>

(***************************************************************************)
(* Lines 16-17: else: print("No I2C devices found")                        *)
(***************************************************************************)
PrintNone ==
    /\ pc = "else"
    /\ log' = log \o print(<<NoDevicesLine>>)
    /\ pc' = "done"
    /\ UNCHANGED <<name, i2c, devices, it, timer, bus>>

(***************************************************************************)
(* Line 18: print("done\n")                                                *)
(***************************************************************************)
\* Variant: the "done" line is forgotten.
PrintDoneForgotten ==
    /\ pc = "done"
    /\ pc' = "sleep"
    /\ UNCHANGED <<name, i2c, devices, it, timer, bus, log>>

PrintDone ==
    /\ pc = "done"
    /\ log' = log \o print(<<"done", "">>)
    /\ pc' = "sleep"
    /\ UNCHANGED <<name, i2c, devices, it, timer, bus>>

(***************************************************************************)
(* Line 19: time.sleep(5) blocks the only thread until the interval has    *)
(* passed; the history records how long the call took.                     *)
(***************************************************************************)
SleepBegin ==
    /\ pc = "sleep"
    /\ timer' = Interval
    /\ pc' = "sleeping"
    /\ UNCHANGED <<name, i2c, devices, it, bus, log>>

Tick ==
    /\ pc = "sleeping"
    /\ timer > 0
    /\ timer' = timer - 1
    /\ UNCHANGED <<pc, name, i2c, devices, it, bus, log>>

\* Variant: the sleep returns before the interval has passed.
SleepReturnEarly ==
    /\ pc = "sleeping"
    /\ log' = Append(log, Event("sleep", "ok", <<Interval - timer>>))
    /\ pc' = "scanning"
    /\ UNCHANGED <<name, i2c, devices, it, timer, bus>>

\* Variant: the loop is left after the sleep.
SleepReturnBreak ==
    /\ pc = "sleeping"
    /\ timer = 0
    /\ log' = Append(log, Event("sleep", "ok", <<Interval - timer>>))
    /\ pc' = "exited"
    /\ UNCHANGED <<name, i2c, devices, it, timer, bus>>

\* Variant: the banner is inside the loop.
SleepReturnToBanner ==
    /\ pc = "sleeping"
    /\ timer = 0
    /\ log' = Append(log, Event("sleep", "ok", <<Interval - timer>>))
    /\ pc' = "banner"
    /\ UNCHANGED <<name, i2c, devices, it, timer, bus>>

SleepReturn ==
    /\ pc = "sleeping"
    /\ timer = 0
    /\ log' = Append(log, Event("sleep", "ok", <<Interval - timer>>))
    /\ pc' = "scanning"
    /\ UNCHANGED <<name, i2c, devices, it, timer, bus>>

(***************************************************************************)
(* The environment: devices are attached to and detached from the bus.     *)
(***************************************************************************)
BusChange ==
    /\ pc \notin {"terminated", "exited"}
    /\ \E S \in SUBSET Wired : S # bus /\ bus' = S
    /\ UNCHANGED <<pc, name, i2c, devices, it, timer, log>>

Step ==
    \/ InitOk
    \/ InitFail
    \/ MainGuard
    \/ PrintBanner
    \/ PrintScanning
    \/ ScanOk
    \/ ScanFault
    \/ IfDevices
    \/ ForBody
    \/ ForEnd
    \/ PrintNone
    \/ PrintDone
    \/ SleepBegin
    \/ Tick
    \/ SleepReturn

Next == Step \/ BusChange

Spec == Init /\ [][Next]_vars

(***************************************************************************)
(* Fairness: the interpreter keeps executing the script's only thread and  *)
(* the clock keeps running, so a program step that can be taken is taken.  *)
(***************************************************************************)
LiveSpec == Spec /\ WF_vars(Step)

(***************************************************************************)
(* The formatting of one address, over the whole address space: the bus    *)
(* holds no device or one, at any of the 128 addresses, and stays as it    *)
(* is.                                                                     *)
(***************************************************************************)
FormatInit == InitProgram /\ bus \in {{}} \cup {{a} : a \in AddressSpace}

FormatSpec == FormatInit /\ [][Step]_vars

(***************************************************************************)
(* Vocabulary of the properties: reading the history.                      *)
(***************************************************************************)
IsLine(i, s) == i \in DOMAIN log /\ log[i] = Line(s)

IsScan(i) == i \in DOMAIN log /\ log[i].ev = "scan"

IsSweep(i) == IsScan(i) /\ log[i].txt = "ok"

IsFault(i) == IsScan(i) /\ log[i].txt = "BusError"

IsSleep(i) == i \in DOMAIN log /\ log[i].ev = "sleep"

\* The two-character upper-case hexadecimal numeral of an address.
HexChar == [d \in 0 .. 15 |->
    CASE d = 0 -> "0" [] d = 1 -> "1" [] d = 2 -> "2" [] d = 3 -> "3"
      [] d = 4 -> "4" [] d = 5 -> "5" [] d = 6 -> "6" [] d = 7 -> "7"
      [] d = 8 -> "8" [] d = 9 -> "9" [] d = 10 -> "A" [] d = 11 -> "B"
      [] d = 12 -> "C" [] d = 13 -> "D" [] d = 14 -> "E" [] d = 15 -> "F"]

TwoHex == [a \in AddressSpace |-> HexChar[a \div 16] \o HexChar[a % 16]]

ExpectedLine == [a \in AddressSpace |->
    "I2C device found at address 0x" \o TwoHex[a] \o "!"]

DeviceLineSet == {ExpectedLine[a] : a \in AddressSpace}

IsDeviceLine(i) ==
    i \in DOMAIN log /\ log[i].ev = "print" /\ log[i].txt \in DeviceLineSet

IsNoneLine(i) == IsLine(i, NoDevicesLine)

IsReportLine(i) == IsDeviceLine(i) \/ IsNoneLine(i)

\* The address a device line names.
AddressOf(i) == CHOOSE a \in AddressSpace : log[i].txt = ExpectedLine[a]

Range(f) == {f[k] : k \in DOMAIN f}

\* Whether the report of the sweep at i has run to its "done" line.
Reported(i) == \E d \in DOMAIN log : d > i /\ IsLine(d, "done")

\* The "done" line that ends the report of the sweep at i.
DoneOf(i) == CHOOSE d \in DOMAIN log :
    /\ d > i
    /\ IsLine(d, "done")
    /\ \A e \in (i + 1) .. (d - 1) : ~IsLine(e, "done")

InLoop ==
    pc \in {"scanning", "scan", "if", "for", "else", "done", "sleep", "sleeping"}

\* The "Scanning..." line that opens the iteration event j belongs to.
OpenerOf(j) == CHOOSE i \in 1 .. (j - 1) :
    /\ IsLine(i, "Scanning...")
    /\ \A k \in (i + 1) .. (j - 1) : ~IsLine(k, "Scanning...")

HasOpener(j) == \E i \in 1 .. (j - 1) : IsLine(i, "Scanning...")

(***************************************************************************)
(* C1.  Every iteration writes "Scanning...", then its report (device      *)
(* lines only, or the single "No I2C devices found" line), then "done".    *)
(* A report line is never written outside an open "Scanning..." ... "done" *)
(* pair, every "done" closes a pair that holds a report, and a new         *)
(* "Scanning..." is written only after the pair before it was closed.      *)
(***************************************************************************)
C1_OutputOrder ==
    \A j \in DOMAIN log :
        /\ IsReportLine(j) =>
              /\ HasOpener(j)
              /\ \A k \in OpenerOf(j) .. j : ~IsLine(k, "done")
              /\ \A k \in OpenerOf(j) .. j :
                    IsReportLine(k) => (IsNoneLine(k) <=> IsNoneLine(j))
              /\ IsNoneLine(j) =>
                    \A k \in OpenerOf(j) .. (j - 1) : ~IsReportLine(k)
        /\ IsLine(j, "done") =>
              /\ HasOpener(j)
              /\ \A k \in OpenerOf(j) .. (j - 1) : ~IsLine(k, "done")
              /\ \E k \in OpenerOf(j) .. (j - 1) : IsReportLine(k)
        /\ (IsLine(j, "Scanning...") /\ HasOpener(j)) =>
              \E k \in OpenerOf(j) .. (j - 1) : IsLine(k, "done")

\* A second iteration has begun after a first one that reported a device.
C1_Witness ==
    /\ Iterations = 2
    /\ \E j \in DOMAIN log : IsDeviceLine(j)
    /\ \E j \in DOMAIN log : IsNoneLine(j)
    /\ pc = "sleep"

\* The scan that follows the one at i.
NextScan(i) == CHOOSE j \in DOMAIN log :
    /\ j > i
    /\ IsScan(j)
    /\ \A k \in (i + 1) .. (j - 1) : ~IsScan(k)

(***************************************************************************)
(* C2.  The loop sweeps once and reports once per iteration and sleeps     *)
(* the full interval once between two iterations: what the history holds   *)
(* between two consecutive sweeps is exactly one block of report lines,    *)
(* the "done" line, one sleep of Interval seconds and the next             *)
(* "Scanning..." line.  While a sleep is in progress the program is        *)
(* blocked in it, and the last thing it did was to finish a report.        *)
(***************************************************************************)
C2_OncePerInterval ==
    /\ \A i \in DOMAIN log :
          (IsScan(i) /\ \E j \in DOMAIN log : j > i /\ IsScan(j)) =>
              LET j == NextScan(i)
                  n == Cardinality({k \in (i + 1) .. (j - 1) : IsReportLine(k)})
              IN  /\ IsSweep(i)
                  /\ n >= 1
                  /\ \A k \in (i + 1) .. (i + n) : IsReportLine(k)
                  /\ IsLine(i + n + 1, "done")
                  /\ IsLine(i + n + 2, "")
                  /\ IsSleep(i + n + 3)
                  /\ log[i + n + 3].arg = <<Interval>>
                  /\ IsLine(i + n + 4, "Scanning...")
                  /\ j = i + n + 5
    /\ \A i \in DOMAIN log : IsSleep(i) => log[i].arg = <<Interval>>
    /\ timer > 0 => pc = "sleeping"
    /\ pc = "sleeping" => IsLine(Len(log), "") /\ IsLine(Len(log) - 1, "done")

\* Two sweeps have been made, with one wait between them.
C2_Witness ==
    /\ Cardinality({i \in DOMAIN log : IsSweep(i)}) = 2
    /\ Cardinality({i \in DOMAIN log : IsSleep(i)}) = 1
    /\ pc = "if"

(***************************************************************************)
(* C3.  A finished report holds the "No I2C devices found" line iff the    *)
(* sweep's result is empty, and then that one line only; for a result      *)
(* that is not empty it holds as many lines as the result has elements,    *)
(* all of them device lines.                                               *)
(***************************************************************************)
C3_NoneIffEmpty ==
    \A i \in DOMAIN log :
        (IsSweep(i) /\ Reported(i)) =>
            LET d == DoneOf(i)
                r == log[i].arg
            IN  /\ (r = <<>>) <=> (\E k \in (i + 1) .. (d - 1) : IsNoneLine(k))
                /\ r = <<>> => d = i + 2
                /\ r # <<>> =>
                      /\ d = i + Len(r) + 1
                      /\ \A k \in (i + 1) .. (d - 1) : IsDeviceLine(k)

\* A report of an empty result and a report of two devices are finished.
C3_Witness ==
    /\ \E i \in DOMAIN log : IsSweep(i) /\ Reported(i) /\ log[i].arg = <<>>
    /\ \E i \in DOMAIN log : IsSweep(i) /\ Reported(i) /\ Len(log[i].arg) = 2
    /\ \E i \in DOMAIN log : IsNoneLine(i)

LastScan == CHOOSE i \in DOMAIN log : IsScan(i) /\ \A k \in (i + 1) .. Len(log) : ~IsScan(k)

(***************************************************************************)
(* C4.  The addresses a report names are exactly the addresses that        *)
(* acknowledged in the sweep of the same iteration, whatever the sweeps    *)
(* before returned; while a report is under way the program holds that     *)
(* sweep's result and nothing else.                                        *)
(***************************************************************************)
C4_FreshResult ==
    /\ \A i \in DOMAIN log :
          (IsSweep(i) /\ Reported(i)) =>
              {AddressOf(k) : k \in {e \in (i + 1) .. (DoneOf(i) - 1) : IsDeviceLine(e)}}
                  = Range(log[i].arg)
    /\ pc \in {"if", "for", "else", "done"} => devices = log[LastScan].arg

\* 0x3C answered the first sweep and not the second, 0x68 the second and
\* not the first, and both reports are finished.
C4_Witness ==
    /\ pc = "sleep"
    /\ \E i, j \in DOMAIN log :
          /\ i < j
          /\ IsSweep(i) /\ log[i].arg = <<60>>
          /\ IsSweep(j) /\ log[j].arg = <<104>>

\* The last thing the program did was a sweep that failed.
Faulted == IsFault(Len(log))

(***************************************************************************)
(* C5.  The loop is never left in normal operation: the only step out of   *)
(* it is a bus fault raised by the sweep.  After every sweep that returns, *)
(* another sweep starts (as long as the model's bound on the iterations    *)
(* lets one start).                                                        *)
(***************************************************************************)
C5_NeverReturns ==
    /\ [][InLoop => (InLoop' \/ (pc = "scan" /\ Faulted'))]_vars
    /\ []((pc = "if" /\ Iterations < MaxSweeps) => <>(pc = "scan"))

\* A sweep has started after an earlier sweep returned.
C5_Witness ==
    /\ pc = "scan"
    /\ Iterations = 2
    /\ \E i \in DOMAIN log : IsSweep(i)

\* The for loop has just written the line of devices[it - 1].
JustPrinted == pc = "for" /\ it > 1

(***************************************************************************)
(* C6.  The line written for a device at address a, for every a in         *)
(* 0 .. 127, is "I2C device found at address 0x", the two upper-case       *)
(* hexadecimal digits of a (a zero first when a < 16) and "!": three       *)
(* characters after the prefix, never more or fewer.                       *)
(***************************************************************************)
C6_DeviceLineFormat ==
    JustPrinted =>
        LET a == devices[it - 1]
            written == log[Len(log)]
        IN  /\ a \in AddressSpace
            /\ written.ev = "print"
            /\ written.txt = "I2C device found at address 0x" \o TwoHex[a] \o "!"
            /\ Len(written.txt) = Len("I2C device found at address 0x") + 2 + 1

\* The line of address 5 has been written, with its leading zero.
C6_Witness ==
    /\ JustPrinted
    /\ devices[it - 1] = 5
    /\ IsLine(Len(log), "I2C device found at address 0x05!")

\* The result of every sweep in the history is well formed, and the lines
\* after it are its elements' lines, in its order.
C7_ReportedAsSwept ==
    \A i \in DOMAIN log :
        IsSweep(i) =>
            LET r == log[i].arg
            IN  /\ \A k \in DOMAIN r : r[k] \in AddressSpace
                /\ \A k \in DOMAIN r : k > 1 => r[k - 1] < r[k]
                /\ \A k \in DOMAIN r :
                      i + k <= Len(log) => IsLine(i + k, ExpectedLine[r[k]])
                /\ (Reported(i) /\ r # <<>>) => DoneOf(i) = i + Len(r) + 1

\* The step that makes the sweep binds devices to exactly what acknowledges.
C7_SweepIsWhatAcknowledges ==
    [][(pc = "scan" /\ pc' = "if") =>
          /\ IsSweep(Len(log))'
          /\ Range(devices') = bus \cap AddressSpace
          /\ log'[Len(log')].arg = devices']_vars

(***************************************************************************)
(* C7.  A sweep's result is strictly ascending (so without duplicates),    *)
(* lies within 0 .. 127 and holds exactly the addresses that acknowledge   *)
(* when the sweep is made; the report names the result's elements one by   *)
(* one in the result's order, leaving none out.                            *)
(***************************************************************************)
C7_SweepInOrder == []C7_ReportedAsSwept /\ C7_SweepIsWhatAcknowledges

\* With 0x3C and 0x68 acknowledging, the report is the two lines in order.
C7_Witness ==
    /\ pc = "done"
    /\ devices = <<60, 104>>
    /\ IsLine(Len(log) - 1, "I2C device found at address 0x3C!")
    /\ IsLine(Len(log), "I2C device found at address 0x68!")
    /\ IsSweep(Len(log) - 2)

InitEvents == {i \in DOMAIN log : log[i].ev = "I2C"}

(***************************************************************************)
(* C8.  The bus is initialised at most once, before anything else.  A      *)
(* failed initialisation ends the program at once: nothing is written, no  *)
(* sweep is made and no handle is bound.  Every line and every sweep comes *)
(* after the one successful initialisation, whose configuration the handle *)
(* keeps.                                                                  *)
(***************************************************************************)
C8_InitOnceOrFatal ==
    /\ InitEvents \subseteq {1}
    /\ log # <<>> => InitEvents = {1}
    /\ (log # <<>> /\ log[1].txt # "ok") =>
          /\ Len(log) = 1
          /\ pc = "terminated"
          /\ i2c = <<>>
    /\ (log # <<>> /\ log[1].txt = "ok") => i2c = <<I2C(0, 22, 21, 100000)>>
    /\ log = <<>> => i2c = <<>> /\ pc = "init"
    /\ \A i \in DOMAIN log :
          (IsScan(i) \/ log[i].ev = "print") => (i > 1 /\ log[1].txt = "ok")

\* The initialisation has failed.
C8_Witness ==
    /\ pc = "terminated"
    /\ log = <<Event("I2C", "HardwareInitError", <<>>)>>

BannerLines == {i \in DOMAIN log : IsLine(i, "Soldered I2C Scanner!")}

(***************************************************************************)
(* C9.  The banner is written once, right after the initialisation and     *)
(* right before the first "Scanning..." line, and never again; no wait     *)
(* comes before the first sweep.                                           *)
(***************************************************************************)
C9_BannerOnce ==
    /\ BannerLines \subseteq {3}
    /\ Iterations >= 1 =>
          /\ IsLine(2, "")
          /\ IsLine(3, "Soldered I2C Scanner!")
          /\ IsLine(4, "Scanning...")
    /\ (Len(log) >= 5 /\ BannerLines # {}) => IsScan(5)
    /\ \A i \in DOMAIN log : IsSleep(i) => \E j \in 1 .. (i - 1) : IsScan(j)
    /\ timer > 0 => \E j \in DOMAIN log : IsScan(j)

\* The second iteration has begun and the banner is still the one line.
C9_Witness ==
    /\ Iterations = 2
    /\ BannerLines = {3}
    /\ \E i \in DOMAIN log : IsSleep(i)

(***************************************************************************)
(* C10.  A bus fault raised by the sweep does not end the scanner: the     *)
(* program is still in its loop after it.                                  *)
(***************************************************************************)
C10_FaultDoesNotTerminate ==
    (\E i \in DOMAIN log : IsFault(i)) => InLoop

=============================================================================
